---- MODULE Spec2Model ----
(***************************************************************************)
(* A model of cenackle's feed distribution engine:                         *)
(*   feed-service  EventHandler.HandlePostCreated, FeedService             *)
(*                 .DistributePost, GraphClient.GetFollowers,              *)
(*                 RedisFeedRepo.AddToTimelines / GetTimeline              *)
(*                 Server.GetTimeline                                      *)
(*   graph-service Server.StreamFollowers, Neo4jRepo.StreamFollowersIDs,   *)
(*                 graphService.FollowUser / UnfollowUser                  *)
(*   post-service  service.CreatePost / DeletePost / ListPostsByAuthor,    *)
(*                 PostgresRepo.ListByAuthor, Server.ListPostsByAuthor     *)
(*                                                                         *)
(* Strings are sequences of one-character strings, so that the member      *)
(* encoding (fmt.Sprintf "%s:%s:%s") and its decoding (strings.Split on    *)
(* ":") are computed as the code computes them.  Times are counted in      *)
(* ticks of 1/TicksPerSecond second, so that time.Time.Unix() truncates.   *)
(***************************************************************************)
EXTENDS Integers, Sequences, FiniteSets, TLC

\* ------------------------------------------------------------------------
\* Bounds of the model
\* ------------------------------------------------------------------------

\* The largest follower count of the author.
MaxFollowers == 5

\* feed_service.go:11 sets BatchSize = 1000 (the dispatch chunk size C); the
\* chunking arithmetic is parametric in it and the model runs it scaled down.
BatchSize == 2

\* part_008:58 sets the stream's BatchSize = 1000 (the stream batch size B);
\* scaled down like the dispatch chunk size.
StreamBatchSize == 2

\* Sub-second resolution of a CreatedAt: ticks per second.
TicksPerSecond == 2

\* The number of undecodable notifications the handler is shown.
MaxDropped == 1

\* ------------------------------------------------------------------------
\* Strings
\* ------------------------------------------------------------------------

\* The characters the model's strings are made of, in byte order
\* (digits < ':' < lower-case letters).
Alphabet == <<"1", "2", "3", "4", "5", "6", "7", ":", "a", "c", "d", "e", "g",
              "i", "l", "o", "p", "r", "s", "t", "u", "v">>

RankOf == [c \in {Alphabet[k] : k \in 1..Len(Alphabet)} |->
              CHOOSE k \in 1..Len(Alphabet) : Alphabet[k] = c]

Rank(c) == RankOf[c]

\* a < b in byte-wise lexicographic order (the order Redis gives to members
\* of equal score).
RECURSIVE StrLess(_, _)
StrLess(a, b) ==
    IF Len(b) = 0 THEN FALSE
    ELSE IF Len(a) = 0 THEN TRUE
    ELSE IF Rank(Head(a)) # Rank(Head(b)) THEN Rank(Head(a)) < Rank(Head(b))
    ELSE StrLess(Tail(a), Tail(b))

\* strings.Split(s, ":")
RECURSIVE Split(_)
Split(s) ==
    IF \A k \in 1..Len(s) : s[k] # ":" THEN <<s>>
    ELSE LET k == CHOOSE j \in 1..Len(s) :
                      s[j] = ":" /\ \A h \in 1..(j - 1) : s[h] # ":"
         IN  <<SubSeq(s, 1, k - 1)>> \o Split(SubSeq(s, k + 1, Len(s)))

\* ------------------------------------------------------------------------
\* Domain values
\* ------------------------------------------------------------------------

TypePost == <<"p", "o", "s", "t">>
TypeVideo == <<"v", "i", "d", "e", "o">>
TypeArticle == <<"a", "r", "t", "i", "c", "l", "e">>

\* A media type as a client may send it: post-service copies Media[0].Type
\* into the event unvalidated (nats_publisher.go:34-37, config.go:207-216).
TypeImageGif == <<"i", ":", "g">>

UserId(k) == <<"u", Alphabet[k]>>
Users == {UserId(k) : k \in 1..(MaxFollowers + 1)}

Author == <<"a", "1">>
PostP1 == <<"p", "1">>
PostP2 == <<"p", "2">>
PostP3 == <<"p", "3">>
PostP4 == <<"p", "4">>
OtherAuthor == <<"a", "2">>

FeedItem(t, a, p, at) == [Type |-> t, AuthorID |-> a, PostID |-> p, CreatedAt |-> at]

FeedRequest(u, limit, offset, types) ==
    [UserID |-> u, Limit |-> limit, Offset |-> offset, Types |-> types]

\* The read query as served ({user_id, limit, offset, types}).
GetTimelineRequest(u, limit, offset, types) ==
    [UserID |-> u, Limit |-> limit, Offset |-> offset, Types |-> types]

\* The content references of the model: the same reference at two creation
\* times (one with a sub-second part), a second reference with the score of
\* the first, and one whose type holds the separator.
ItemPool ==
    { FeedItem(TypeVideo, Author, PostP1, 2 * TicksPerSecond),
      FeedItem(TypeVideo, Author, PostP1, 3 * TicksPerSecond + 1),
      FeedItem(TypePost, Author, PostP2, 2 * TicksPerSecond),
      FeedItem(TypeImageGif, Author, PostP3, TicksPerSecond) }

\* time.Time.Unix(): whole seconds.
Unix(at) == at \div TicksPerSecond

\* time.Unix(sec, 0)
TimeUnix(sec) == sec * TicksPerSecond

\* ------------------------------------------------------------------------
\* Timeline Store (a Redis sorted set per user)
\* ------------------------------------------------------------------------

\* member := fmt.Sprintf("%s:%s:%s", item.Type, item.AuthorID, item.PostID)
Member(item) == item.Type \o <<":">> \o item.AuthorID \o <<":">> \o item.PostID

\* score := float64(item.CreatedAt.Unix())
Score(item) == Unix(item.CreatedAt)

\* A ZADD that leaves a member it finds alone (ZADD NX): the first score stays.
MutZAddNX(tl, member, score) ==
    IF \E e \in tl : e.member = member THEN tl
    ELSE tl \cup {[member |-> member, score |-> score]}

\* A write that replaces the timeline by the one entry (a SET for a ZADD).
MutZAddReplaces(tl, member, score) == {[member |-> member, score |-> score]}

\* ZADD key score member: an upsert, a member of the set has one score.
ZAdd(tl, member, score) ==
    {e \in tl : e.member # member} \cup {[member |-> member, score |-> score]}

\* NewRedisFeedRepo sets ttl = 24 * 30 * time.Hour; the clock of the model
\* counts in units of ten days.
TimelineTTL == 3

\* An EXPIRE that leaves a key with a time to live alone (EXPIRE NX).
MutExpireNX(old, t) == IF old >= 0 THEN old ELSE t + TimelineTTL

\* pipe.Expire(ctx, key, r.ttl) at time t: the key expires at t + ttl,
\* whatever its time to live was.
Expire(old, t) == t + TimelineTTL

\* e1 comes before e2 in descending order: higher score first, and among
\* equal scores the lexicographically greater member first.
Before(e1, e2) ==
    \/ e1.score > e2.score
    \/ e1.score = e2.score /\ StrLess(e2.member, e1.member)

\* The whole sorted set in descending order.
RECURSIVE RevOrder(_)
RevOrder(tl) ==
    IF tl = {} THEN <<>>
    ELSE LET first == CHOOSE e \in tl : \A o \in tl \ {e} : Before(e, o)
         IN  <<first>> \o RevOrder(tl \ {first})

\* ZREVRANGE key start stop WITHSCORES: zero-based inclusive indexes into
\* the descending order, a negative index counting from the end.
ZRevRangeWithScores(tl, start, stop) ==
    LET all == RevOrder(tl)
        n == Len(all)
        s0 == IF start < 0 THEN n + start ELSE start
        s == IF s0 < 0 THEN 0 ELSE s0
        e0 == IF stop < 0 THEN n + stop ELSE stop
        e == IF e0 >= n THEN n - 1 ELSE e0
    IN  IF s > e \/ s >= n THEN <<>> ELSE SubSeq(all, s + 1, e + 1)

\* A decoding that knows the current encoding only.
MutDecodeNoLegacy(member) ==
    LET parts == Split(member)
    IN  IF Len(parts) = 3
        THEN [ok |-> TRUE, Type |-> parts[1], AuthorID |-> parts[2], PostID |-> parts[3]]
        ELSE [ok |-> FALSE, Type |-> <<>>, AuthorID |-> <<>>, PostID |-> <<>>]

\* strings.Split(member, ":") and the two encodings GetTimeline accepts:
\* 3 parts type:author:post, 2 parts type:post (author unknown); a member
\* with another number of parts is skipped.
Decode(member) ==
    LET parts == Split(member)
    IN  IF Len(parts) = 3
        THEN [ok |-> TRUE, Type |-> parts[1], AuthorID |-> parts[2], PostID |-> parts[3]]
        ELSE IF Len(parts) = 2
        THEN [ok |-> TRUE, Type |-> parts[1], AuthorID |-> <<>>, PostID |-> parts[2]]
        ELSE [ok |-> FALSE, Type |-> <<>>, AuthorID |-> <<>>, PostID |-> <<>>]

\* hasFilter && !filterMap[contentType]
Filtered(types, contentType) == types # {} /\ contentType \notin types

\* The loop of GetTimeline over the range read from Redis.
RECURSIVE DecodeRange(_, _)
DecodeRange(results, types) ==
    IF results = <<>> THEN <<>>
    ELSE LET z == Head(results)
             d == Decode(z.member)
             rest == DecodeRange(Tail(results), types)
         IN  IF ~d.ok \/ Filtered(types, d.Type) THEN rest
             ELSE <<FeedItem(d.Type, d.AuthorID, d.PostID, TimeUnix(z.score))>> \o rest

\* RedisFeedRepo.GetTimeline on a store that answers.
RepoGetTimeline(store, req) ==
    LET start == req.Offset
        stop == req.Offset + req.Limit - 1
    IN  DecodeRange(ZRevRangeWithScores(store[req.UserID], start, stop), req.Types)

\* ------------------------------------------------------------------------
\* Follower stream (graph-service) and its consumer (GraphClient)
\* ------------------------------------------------------------------------

\* A stream that yields full batches only: the ids left over after the last
\* full batch are not sent.
MutNextBatchFullOnly(flw, cur, batchSize) ==
    IF cur + batchSize > Len(flw) THEN <<>> ELSE SubSeq(flw, cur + 1, cur + batchSize)

\* Neo4jRepo.StreamFollowersIDs: the batch yielded from cursor position cur,
\* full batches of batchSize ids and then the rest.
NextBatch(flw, cur, batchSize) ==
    SubSeq(flw, cur + 1, IF cur + batchSize > Len(flw) THEN Len(flw) ELSE cur + batchSize)

\* A receive loop that takes an error for the end of the stream and returns
\* what it has.
MutOnRecvSwallow(all, resp, err) ==
    IF err # "nil" THEN [more |-> FALSE, followers |-> all, err |-> FALSE]
    ELSE [more |-> TRUE, followers |-> all \o resp, err |-> FALSE]

\* A receive loop that tests err != nil before io.EOF: the end of the stream
\* is reported as an error.
MutOnRecvEOFIsError(all, resp, err) ==
    IF err # "nil" THEN [more |-> FALSE, followers |-> <<>>, err |-> TRUE]
    ELSE [more |-> TRUE, followers |-> all \o resp, err |-> FALSE]

\* One turn of the receive loop of GraphClient.GetFollowers, on what
\* stream.Recv() returned: err is "nil" (a batch), "EOF" or "error".
OnRecv(all, resp, err) ==
    IF err = "EOF" THEN [more |-> FALSE, followers |-> all, err |-> FALSE]
    ELSE IF err # "nil" THEN [more |-> FALSE, followers |-> <<>>, err |-> TRUE]
    ELSE [more |-> TRUE, followers |-> all \o resp, err |-> FALSE]

\* ------------------------------------------------------------------------
\* Fan-out Coordinator (FeedService.DistributePost)
\* ------------------------------------------------------------------------

\* for i := 0; i < len(followers); ...
LoopContinues(i, n) == i < n

\* end := i + BatchSize; if end > len(followers) { end = len(followers) }
ChunkEnd(i, n) == IF i + BatchSize > n THEN n ELSE i + BatchSize

\* A loop that steps one id too far: the id after each chunk is skipped.
MutAfterBatchSkip(i, n, failed) == i + BatchSize + 1

\* A loop that stops at a failed chunk (break for continue).
MutAfterBatchBreak(i, n, failed) == IF failed THEN n ELSE i + BatchSize

\* The loop variable after the call for the chunk at i returned: the loop
\* logs a failure and continues.
AfterBatch(i, n, failed) == i + BatchSize

\* A coordinator that reports a failed chunk to its caller.
MutLoopResultReportsFailure(anyFailed) == IF anyFailed THEN "error" ELSE "ok"

\* What DistributePost returns after its loop: nil, whether or not a call
\* for a chunk failed.
LoopResult(anyFailed) == "ok"

\* slog.Info("Fan-out complete", "count", len(followers)): what a
\* distribution that ran its loop exposes when it ends, the one record with
\* a count.
FanOutComplete(fl) == [msg |-> "Fan-out complete", count |-> Len(fl)]

\* A loop that starts the call for the next chunk while one is outstanding
\* (go s.repo.AddToTimelines(...)).
MutMayDispatchAsync(p) == p \in {"loop", "call"}

\* The loop calls s.repo.AddToTimelines and waits for its return: a chunk is
\* dispatched from the head of the loop only.
MayDispatch(p) == p = "loop"

\* A pipeline whose Exec swallows the errors of its commands.
MutExecResultSwallows(failed) == "ok"

\* _, err := pipe.Exec(ctx); return err: one error for the whole batch, nil
\* when every command was executed.
ExecResult(failed) == IF failed THEN "err" ELSE "ok"

\* The distributions of the model, and the one that runs alone under Spec.
Dists == {"d1", "d2"}
Solo == {"d1"}

VARIABLES
    followers,     \* the author's followers, in the order the cursor yields them
    timelines,     \* the store: user id -> set of [member, score]
    lastApplied,   \* history: user id -> set of [member, at], the CreatedAt last upserted
    expireAt,      \* the store: user id -> the time its key expires (-1: no key)
    wroteAt,       \* history: user id -> the time of the last upsert executed (-1: none)
    now,           \* the clock of the store
    deleted,       \* post-service: the ids of the posts deleted (post.deleted published)
    pc,            \* per distribution: free, spawned, recv, loop, call, done, aborted
    item,          \* per distribution: the FeedItem of the notification
    ctxDone,       \* per distribution: childCtx's deadline has passed
    streamErr,     \* history: the follower stream failed (open or receive)
    cursor,        \* per distribution: followers the server has sent
    batches,       \* history: per distribution, the batches the stream delivered
    allFollowers,  \* per distribution: GetFollowers' accumulated slice
    idx,           \* per distribution: the loop variable i of DistributePost
    pending,       \* per distribution: commands of the pipeline not yet executed
    cmdFailed,     \* per distribution: a command of the pipeline failed
    calls,         \* history: per distribution, the AddToTimelines calls issued
    peak,          \* history: per distribution, most ids held and not yet dispatched
    result,        \* per distribution: what DistributePost returned
    dropped,       \* notifications dropped as undecodable
    handler,       \* per distribution: HandlePostCreated is idle, running, returned
    writes,        \* direct AddToTimelines calls made on the store so far
    rd,            \* the last GetTimeline call: its request, its result, what was stored
    lp,            \* post-service: the last ListPostsByAuthor call and its outcome
    pager,         \* a reader fetching pages offset = 0, L, 2L, ... until an empty one
    fw,            \* graph-service: the last FollowUser call and what it returned
    posts,         \* post-service: the rows of the posts table
    published,     \* post-service: the events published on post.created
    created,       \* post-service: per post id, how far its CreatePost call got
    pl             \* a client following ListPostsByAuthor page tokens

vars == <<followers, timelines, lastApplied, expireAt, wroteAt, now, deleted, pc, item, ctxDone, streamErr, cursor, batches,
          allFollowers, idx, pending, cmdFailed, calls, peak, result, dropped,
          handler, writes, rd, lp, pager, fw, posts, published, created, pl>>

NoItem == FeedItem(<<>>, <<>>, <<>>, 0)

\* The notifications on post.created: a payload that does not decode, or the
\* event of an item.
Messages == {[ok |-> FALSE, item |-> NoItem]} \cup {[ok |-> TRUE, item |-> it] : it \in ItemPool}

NoRead == [req |-> FeedRequest(<<>>, 0, 0, {}), items |-> <<>>, expect |-> <<>>,
           follows |-> FALSE, storeErr |-> FALSE, code |-> "none", reached |-> FALSE,
           asked |-> GetTimelineRequest(<<>>, 0, 0, {}), got |-> <<>>]
NoList == [token |-> <<>>, parsed |-> FALSE, code |-> "none", reached |-> FALSE]
NoPager == [state |-> "idle", user |-> <<>>, limit |-> 0, offset |-> 0, acc |-> <<>>,
            dirty |-> FALSE, start |-> <<>>, rescored |-> FALSE]
NoFollow == [actor |-> <<>>, target |-> <<>>, err |-> FALSE]
PostIDs == {PostP1, PostP2, PostP3, PostP4}
NotCreated == [saved |-> "none", pub |-> "none", ret |-> "none"]
NoLister == [state |-> "idle", limit |-> 0, token |-> <<>>, acc |-> <<>>, dirty |-> FALSE]

\* The history of a timeline after the upsert of it: per member, the item
\* upserted last, the number of upserts (1, or 2 for more than one) and the
\* CreatedAt of the one before.
Noted(applied, it) ==
    LET m == Member(it)
        old == {w \in applied : w.member = m}
    IN  (applied \ old) \cup
        {[member |-> m, item |-> it,
          n |-> IF old = {} THEN 1 ELSE 2,
          prev |-> IF old = {} THEN -1 ELSE (CHOOSE w \in old : TRUE).item.CreatedAt]}

FollowerLists == {[k \in 1..n |-> UserId(k)] : n \in 0..MaxFollowers}

Init ==
    /\ followers \in FollowerLists
    /\ timelines = [u \in Users |-> {}]
    /\ lastApplied = [u \in Users |-> {}]
    /\ expireAt = [u \in Users |-> -1]
    /\ wroteAt = [u \in Users |-> -1]
    /\ now = 0
    /\ deleted = {}
    /\ pc = [d \in Dists |-> "free"]
    /\ item = [d \in Dists |-> NoItem]
    /\ ctxDone = [d \in Dists |-> FALSE]
    /\ streamErr = [d \in Dists |-> FALSE]
    /\ cursor = [d \in Dists |-> 0]
    /\ batches = [d \in Dists |-> <<>>]
    /\ allFollowers = [d \in Dists |-> <<>>]
    /\ idx = [d \in Dists |-> 0]
    /\ pending = [d \in Dists |-> <<>>]
    /\ cmdFailed = [d \in Dists |-> FALSE]
    /\ calls = [d \in Dists |-> <<>>]
    /\ peak = [d \in Dists |-> 0]
    /\ result = [d \in Dists |-> "none"]
    /\ dropped = 0
    /\ handler = [d \in Dists |-> "idle"]
    /\ writes = 0
    /\ rd = NoRead
    /\ lp = NoList
    /\ pager = NoPager
    /\ fw = NoFollow
    /\ posts = {}
    /\ published = {}
    /\ created = [p \in PostIDs |-> NotCreated]
    /\ pl = NoLister

storeVars == <<timelines, lastApplied, expireAt, wroteAt>>
extVars == <<fw, posts, published, created, pl>>
readVars == <<writes, rd, lp, pager>>
runVars == <<pc, item, ctxDone, streamErr, cursor, batches, allFollowers, idx, pending,
             cmdFailed, calls, peak, result, handler>>

\* A handler without the return after the decode error: it goes on with the
\* zero event.
MutAfterUnmarshalGoesOn(ok) == "spawn"

\* if err := json.Unmarshal(msg.Data, &event); err != nil { ...; return }
AfterUnmarshal(ok) == IF ok THEN "spawn" ELSE "return"

\* EventHandler.HandlePostCreated up to its go statement: an undecodable
\* payload is logged and dropped, and the handler returns; otherwise the item
\* is built and DistributePost is handed to a goroutine.  The subscription
\* is a plain nc.Subscribe: a message is delivered once.
HandlePostCreated(d, msg) ==
    /\ ~msg.ok => dropped < MaxDropped
    /\ dropped' = IF msg.ok THEN dropped ELSE dropped + 1
    /\ IF AfterUnmarshal(msg.ok) = "return"
       THEN UNCHANGED <<extVars, followers, now, deleted, storeVars, runVars, readVars>>
       ELSE /\ pc[d] = "free"
            /\ pc' = [pc EXCEPT ![d] = "spawned"]
            /\ item' = [item EXCEPT ![d] = msg.item]
            /\ handler' = [handler EXCEPT ![d] = "running"]
            /\ UNCHANGED <<extVars, followers, now, deleted, storeVars, ctxDone, streamErr, cursor, batches, allFollowers,
                           idx, pending, cmdFailed, calls, peak, result, readVars>>

\* A handler that calls DistributePost itself returns when it has ended.
MutHandlerWaits(p) == p \in {"done", "aborted"}

\* What the handler waits for after the go statement, given where the
\* goroutine is: nothing.
HandlerMayReturn(p) == TRUE

\* HandlePostCreated returns to the NATS subscription.
HandlerReturn(d) ==
    /\ handler[d] = "running"
    /\ HandlerMayReturn(pc[d])
    /\ handler' = [handler EXCEPT ![d] = "returned"]
    /\ UNCHANGED <<extVars, followers, now, deleted, storeVars, pc, item, ctxDone, streamErr, cursor, batches,
                   allFollowers, idx, pending, cmdFailed, calls, peak, result,
                   dropped, readVars>>

\* DistributePost after GetFollowers returned r: an error is returned as it
\* is, an empty list ends the distribution, otherwise the loop starts at 0.
AfterGetFollowers(d, r) ==
    /\ allFollowers' = [allFollowers EXCEPT ![d] = r.followers]
    /\ idx' = [idx EXCEPT ![d] = 0]
    /\ IF r.err
       THEN /\ pc' = [pc EXCEPT ![d] = "aborted"]
            /\ result' = [result EXCEPT ![d] = "error"]
       ELSE IF Len(r.followers) = 0 \/ ~LoopContinues(0, Len(r.followers))
       THEN /\ pc' = [pc EXCEPT ![d] = "done"]
            /\ result' = [result EXCEPT ![d] = "ok"]
       ELSE /\ pc' = [pc EXCEPT ![d] = "loop"]
            /\ UNCHANGED result

\* The goroutine starts: childCtx gets its 30 s deadline, DistributePost
\* calls GetFollowers, which opens the stream; the open may fail.
OpenStream(d, ok) ==
    /\ pc[d] = "spawned"
    /\ IF ok
       THEN /\ pc' = [pc EXCEPT ![d] = "recv"]
            /\ UNCHANGED <<streamErr, allFollowers, idx, result>>
       ELSE /\ streamErr' = [streamErr EXCEPT ![d] = TRUE]
            /\ AfterGetFollowers(d, [followers |-> <<>>, err |-> TRUE])
    /\ UNCHANGED <<extVars, followers, now, deleted, storeVars, item, ctxDone, cursor, batches, pending, cmdFailed,
                   calls, peak, dropped, handler, readVars>>

\* stream.Recv(): the next batch, the end of the stream, or an error (the
\* server's, the transport's, or the deadline's).
Recv(d, fail) ==
    /\ pc[d] = "recv"
    /\ LET n == Len(followers)
           err == IF fail \/ ctxDone[d] THEN "error"
                  ELSE IF cursor[d] >= n THEN "EOF" ELSE "nil"
           resp == IF err = "nil" THEN NextBatch(followers, cursor[d], StreamBatchSize)
                   ELSE <<>>
           r == OnRecv(allFollowers[d], resp, err)
       IN  /\ cursor' = [cursor EXCEPT ![d] = @ + Len(resp)]
           /\ batches' = [batches EXCEPT ![d] = IF err = "nil" THEN Append(@, resp) ELSE @]
           /\ streamErr' = [streamErr EXCEPT ![d] = @ \/ err = "error"]
           /\ peak' = [peak EXCEPT ![d] =
                         IF Len(r.followers) > @ THEN Len(r.followers) ELSE @]
           /\ IF r.more
              THEN /\ allFollowers' = [allFollowers EXCEPT ![d] = r.followers]
                   /\ UNCHANGED <<pc, idx, result>>
              ELSE AfterGetFollowers(d, r)
    /\ UNCHANGED <<extVars, followers, now, deleted, storeVars, item, ctxDone, pending, cmdFailed, calls, dropped, handler, readVars>>

\* One turn of the loop: the chunk followers[i:end] is handed to
\* AddToTimelines, which queues ZADD and EXPIRE per user and executes the
\* pipeline.  With the context already done nothing is sent.
CallAddToTimelines(d) ==
    /\ MayDispatch(pc[d])
    /\ LET n == Len(allFollowers[d])
           batch == SubSeq(allFollowers[d], idx[d] + 1, ChunkEnd(idx[d], n))
       IN  /\ calls' = [calls EXCEPT ![d] =
                  Append(@, [users |-> batch, afterDeadline |-> ctxDone[d],
                             outcome |-> "pending"])]
           /\ pending' = [pending EXCEPT ![d] = IF ctxDone[d] THEN <<>> ELSE batch]
    /\ cmdFailed' = [cmdFailed EXCEPT ![d] = FALSE]
    /\ pc' = [pc EXCEPT ![d] = "call"]
    /\ UNCHANGED <<extVars, followers, now, deleted, storeVars, item, ctxDone, streamErr, cursor, batches, allFollowers,
                   idx, peak, result, dropped, handler, readVars>>

\* Redis executes the next user's ZADD and EXPIRE.
Apply(d) ==
    /\ pc[d] = "call"
    /\ pending[d] # <<>>
    /\ ~ctxDone[d]
    /\ LET u == Head(pending[d])
           m == Member(item[d])
       IN  /\ timelines' = [timelines EXCEPT ![u] = ZAdd(@, m, Score(item[d]))]
           /\ lastApplied' = [lastApplied EXCEPT ![u] = Noted(@, item[d])]
           /\ expireAt' = [expireAt EXCEPT ![u] = Expire(@, now)]
           /\ wroteAt' = [wroteAt EXCEPT ![u] = now]
    /\ pending' = [pending EXCEPT ![d] = Tail(@)]
    /\ UNCHANGED <<extVars, followers, now, deleted, pc, item, ctxDone, streamErr, cursor, batches, allFollowers, idx,
                   cmdFailed, calls, peak, result, dropped, handler, readVars>>

\* The next user's commands fail (are refused or never reach Redis).
CmdFail(d) ==
    /\ pc[d] = "call"
    /\ pending[d] # <<>>
    /\ pending' = [pending EXCEPT ![d] = Tail(@)]
    /\ cmdFailed' = [cmdFailed EXCEPT ![d] = TRUE]
    /\ UNCHANGED <<extVars, followers, now, deleted, storeVars, pc, item, ctxDone, streamErr, cursor, batches,
                   allFollowers, idx, calls, peak, result, dropped, handler, readVars>>

\* pipe.Exec returns: nil when every command was executed, else an error; a
\* context that is done ends the call with what was executed so far.  The
\* loop then moves on to the next chunk or ends with success.
Return(d) ==
    /\ pc[d] = "call"
    /\ pending[d] = <<>> \/ ctxDone[d]
    /\ LET failed == cmdFailed[d] \/ ctxDone[d]
           n == Len(allFollowers[d])
           i == AfterBatch(idx[d], n, failed)
       IN  /\ calls' = [calls EXCEPT ![d][Len(calls[d])].outcome = ExecResult(failed)]
           /\ idx' = [idx EXCEPT ![d] = i]
           /\ IF LoopContinues(i, n)
              THEN /\ pc' = [pc EXCEPT ![d] = "loop"]
                   /\ UNCHANGED result
              ELSE /\ pc' = [pc EXCEPT ![d] = "done"]
                   /\ result' = [result EXCEPT ![d] =
                          LoopResult(\E k \in 1..Len(calls'[d]) :
                                         calls'[d][k].outcome = "err")]
    /\ pending' = [pending EXCEPT ![d] = <<>>]
    /\ UNCHANGED <<extVars, followers, now, deleted, storeVars, item, ctxDone, streamErr, cursor, batches, allFollowers,
                   cmdFailed, peak, dropped, handler, readVars>>

\* The 30 s of context.WithTimeout pass while the goroutine runs.
Deadline(d) ==
    /\ pc[d] \in {"recv", "loop", "call"}
    /\ ~ctxDone[d]
    /\ ctxDone' = [ctxDone EXCEPT ![d] = TRUE]
    /\ UNCHANGED <<extVars, followers, now, deleted, storeVars, pc, item, streamErr, cursor, batches, allFollowers, idx,
                   pending, cmdFailed, calls, peak, result, dropped, handler, readVars>>

\* ------------------------------------------------------------------------
\* Reads, and direct use of the store
\* ------------------------------------------------------------------------

\* The limit Server.GetTimeline passes on when the request gives none.
DefaultLimit == 20

\* The most direct AddToTimelines calls under SpecStore.
MaxWrites == 3

\* The largest limit and offset of a read under SpecStore.
MaxLimit == 3
MaxOffset == 2

\* The batches written directly, and the user whose timeline is read.
StoreBatches == {{UserId(1)}, {UserId(1), UserId(2)}}
Reader == UserId(1)

Range(seq) == {seq[k] : k \in 1..Len(seq)}

\* What a reader is owed for an item: the reference as distributed, its
\* CreatedAt at second resolution.
Stored(it) == FeedItem(it.Type, it.AuthorID, it.PostID, TimeUnix(Unix(it.CreatedAt)))

RECURSIVE Keep(_, _)
Keep(seq, types) ==
    IF seq = <<>> THEN <<>>
    ELSE IF types # {} /\ Head(seq).Type \notin types THEN Keep(Tail(seq), types)
    ELSE <<Head(seq)>> \o Keep(Tail(seq), types)

\* The items upserted last, in the descending order of u's timeline.
Ordering(store, applied, u) ==
    LET all == RevOrder(store[u])
    IN  [k \in 1..Len(all) |->
            Stored((CHOOSE w \in applied[u] : w.member = all[k].member).item)]

\* Positions Offset .. Offset+Limit-1 of that ordering, then the types of the
\* request kept.
Page(store, applied, req) ==
    LET all == Ordering(store, applied, req.UserID)
        last == IF req.Offset + req.Limit > Len(all) THEN Len(all)
                ELSE req.Offset + req.Limit
    IN  Keep(SubSeq(all, req.Offset + 1, last), req.Types)

\* RedisFeedRepo.AddToTimelines on a store that executes the whole pipeline.
AddToTimelines(store, userIDs, it) ==
    [u \in DOMAIN store |->
        IF u \in userIDs THEN ZAdd(store[u], Member(it), Score(it)) ELSE store[u]]

\* A successful AddToTimelines call made on the store.
StoreAdd(userIDs, it) ==
    /\ writes < MaxWrites
    /\ writes' = writes + 1
    /\ timelines' = AddToTimelines(timelines, userIDs, it)
    /\ lastApplied' = [u \in Users |->
                         IF u \in userIDs THEN Noted(lastApplied[u], it) ELSE lastApplied[u]]
    /\ expireAt' = [u \in Users |->
                      IF u \in userIDs THEN Expire(expireAt[u], now) ELSE expireAt[u]]
    /\ wroteAt' = [u \in Users |-> IF u \in userIDs THEN now ELSE wroteAt[u]]
    /\ pager' = IF pager.state # "idle" /\ pager.user \in userIDs
                THEN [pager EXCEPT !.dirty = TRUE,
                                   !.rescored = @ \/ \E e \in timelines[pager.user] :
                                       e.member = Member(it) /\ e.score # Score(it)]
                ELSE pager
    /\ UNCHANGED <<extVars, followers, now, deleted, runVars, dropped, rd, lp>>

\* FeedService.GetTimeline -> RedisFeedRepo.GetTimeline, answered by Redis.
GetTimeline(req) ==
    /\ pager.state = "idle"
    /\ rd' = [req |-> req, items |-> RepoGetTimeline(timelines, req),
              expect |-> Page(timelines, lastApplied, req),
              follows |-> req.UserID \in Range(followers),
              storeErr |-> FALSE, code |-> "OK", reached |-> TRUE,
              asked |-> req, got |-> RepoGetTimeline(timelines, req)]
    /\ UNCHANGED <<extVars, followers, now, deleted, storeVars, runVars, dropped, writes, lp, pager>>

\* A paging reader fetches GetTimeline(offset, L): an empty page ends the
\* paging, any other is appended and the offset moves on by L.
FetchPage(pg) ==
    LET req == FeedRequest(pg.user, pg.limit, pg.offset, {})
        items == RepoGetTimeline(timelines, req)
    IN  /\ rd' = [req |-> req, items |-> items,
                  expect |-> Page(timelines, lastApplied, req),
                  follows |-> req.UserID \in Range(followers),
                  storeErr |-> FALSE, code |-> "OK", reached |-> TRUE,
                  asked |-> req, got |-> items]
        /\ pager' = IF items = <<>>
                    THEN [pg EXCEPT !.state = "done"]
                    ELSE [pg EXCEPT !.acc = @ \o items, !.offset = @ + pg.limit]
        /\ UNCHANGED <<extVars, followers, now, deleted, storeVars, runVars, dropped, writes, lp>>

\* A reader starts paging u's timeline with page size L, at offset 0.
PagerStart(u, L) ==
    /\ pager.state = "idle"
    /\ FetchPage([state |-> "paging", user |-> u, limit |-> L, offset |-> 0,
                  acc |-> <<>>, dirty |-> FALSE,
                  start |-> Ordering(timelines, lastApplied, u), rescored |-> FALSE])

\* The reader fetches its next page.
PagerNext ==
    /\ pager.state = "paging"
    /\ FetchPage(pager)

\* The reader is done with its pages.
PagerReset ==
    /\ pager.state = "done"
    /\ pager' = NoPager
    /\ UNCHANGED <<extVars, followers, now, deleted, storeVars, runVars, dropped, writes, rd, lp>>

TypeSets == {{}, {TypeVideo, TypeArticle}}

\* The first page of a user's timeline with the default limit, as in the
\* scenario of the specification.
FirstPage(u) == FeedRequest(u, DefaultLimit, 0, {})

Next ==
    \/ \E d \in Solo, msg \in Messages : HandlePostCreated(d, msg)
    \/ \E d \in Solo : HandlerReturn(d)
    \/ \E d \in Solo, ok \in BOOLEAN : OpenStream(d, ok)
    \/ \E d \in Solo, fail \in BOOLEAN : Recv(d, fail)
    \/ \E d \in Solo : CallAddToTimelines(d)
    \/ \E d \in Solo : Apply(d)
    \/ \E d \in Solo : CmdFail(d)
    \/ \E d \in Solo : Return(d)
    \/ \E d \in Solo : Deadline(d)
    \/ \E u \in Users : GetTimeline(FirstPage(u))

Spec == Init /\ [][Next]_vars

\* The store used directly: whole successful AddToTimelines calls for the
\* author's two followers, reads of every range and filter, and a paging
\* reader.
InitStore ==
    /\ Init
    /\ followers = <<UserId(1), UserId(2)>>

NextStore ==
    \/ \E us \in StoreBatches, it \in ItemPool : StoreAdd(us, it)
    \/ \E l \in 1..MaxLimit, o \in 0..MaxOffset, ts \in TypeSets :
           GetTimeline(FeedRequest(Reader, l, o, ts))
    \/ \E l \in 1..MaxLimit : PagerStart(Reader, l)
    \/ PagerNext
    \/ PagerReset

SpecStore == InitStore /\ [][NextStore]_vars

\* Two distributions at once: the items an author may publish in quick
\* succession (two references created within one second, and one reference
\* notified with two creation times), fanned out to two followers by two
\* goroutines whose pipelines interleave at will.
RacePool ==
    { FeedItem(TypeVideo, Author, PostP1, 2 * TicksPerSecond),
      FeedItem(TypeVideo, Author, PostP1, 3 * TicksPerSecond + 1),
      FeedItem(TypePost, Author, PostP2, 2 * TicksPerSecond + 1) }

RaceMessages == {[ok |-> TRUE, item |-> it] : it \in RacePool}

InitRace ==
    /\ Init
    /\ followers = <<UserId(1), UserId(2)>>

NextRace ==
    \/ \E d \in Dists, msg \in RaceMessages : HandlePostCreated(d, msg)
    \/ \E d \in Dists : HandlerReturn(d)
    \/ \E d \in Dists : OpenStream(d, TRUE)
    \/ \E d \in Dists : Recv(d, FALSE)
    \/ \E d \in Dists : CallAddToTimelines(d)
    \/ \E d \in Dists : Apply(d)
    \/ \E d \in Dists : CmdFail(d)
    \/ \E d \in Dists : Return(d)

SpecRace == InitRace /\ [][NextRace]_vars

\* strings of parts joined by ":", as fmt.Sprintf("%s:%s:%s", ...) joins
\* three and the former fmt.Sprintf("%s:%s", ...) joined two.
RECURSIVE Join(_)
Join(parts) ==
    IF Len(parts) = 1 THEN parts[1]
    ELSE parts[1] \o <<":">> \o Join(Tail(parts))

\* Entries a timeline may hold: members of the current encoding
\* (type:author:post), members a former version of the repository wrote
\* (type:post), and the member of an item whose type holds the separator.
StoredPool ==
    { [parts |-> <<TypeVideo, Author, PostP1>>, score |-> 2],
      [parts |-> <<TypePost, Author, PostP2>>, score |-> 2],
      [parts |-> <<TypeVideo, PostP1>>, score |-> 3],
      [parts |-> <<TypeArticle, PostP2>>, score |-> 1],
      [parts |-> <<<<"i">>, <<"g">>, Author, PostP3>>, score |-> 2] }

\* The item whose upsert left the entry e of StoredPool.
WrittenItem(e) ==
    LET n == Len(e.parts)
    IN  FeedItem(IF n = 4 THEN TypeImageGif ELSE e.parts[1],
                 IF n = 2 THEN <<>> ELSE e.parts[n - 1],
                 e.parts[n], TimeUnix(e.score))

\* A timeline found in Redis at start-up, read with every range and filter.
InitDecode ==
    /\ \E S \in SUBSET StoredPool :
           /\ timelines = [u \in Users |->
                  IF u = Reader
                  THEN {[member |-> Join(e.parts), score |-> e.score] : e \in S}
                  ELSE {}]
           /\ lastApplied = [u \in Users |->
                  IF u = Reader
                  THEN {[member |-> Join(e.parts), item |-> WrittenItem(e),
                         n |-> 1, prev |-> -1] : e \in S}
                  ELSE {}]
           /\ expireAt = [u \in Users |->
                  IF u = Reader /\ S # {} THEN Expire(-1, 0) ELSE -1]
           /\ wroteAt = [u \in Users |-> IF u = Reader /\ S # {} THEN 0 ELSE -1]
    /\ now = 0
    /\ deleted = {}
    /\ followers = <<Reader>>
    /\ pc = [d \in Dists |-> "free"]
    /\ item = [d \in Dists |-> NoItem]
    /\ ctxDone = [d \in Dists |-> FALSE]
    /\ streamErr = [d \in Dists |-> FALSE]
    /\ cursor = [d \in Dists |-> 0]
    /\ batches = [d \in Dists |-> <<>>]
    /\ allFollowers = [d \in Dists |-> <<>>]
    /\ idx = [d \in Dists |-> 0]
    /\ pending = [d \in Dists |-> <<>>]
    /\ cmdFailed = [d \in Dists |-> FALSE]
    /\ calls = [d \in Dists |-> <<>>]
    /\ peak = [d \in Dists |-> 0]
    /\ result = [d \in Dists |-> "none"]
    /\ dropped = 0
    /\ handler = [d \in Dists |-> "idle"]
    /\ writes = 0
    /\ rd = NoRead
    /\ lp = NoList
    /\ pager = NoPager
    /\ fw = NoFollow
    /\ posts = {}
    /\ published = {}
    /\ created = [p \in PostIDs |-> NotCreated]
    /\ pl = NoLister

NextDecode ==
    \E l \in 1..MaxLimit, o \in 0..MaxOffset, ts \in TypeSets :
        GetTimeline(FeedRequest(Reader, l, o, ts))

SpecDecode == InitDecode /\ [][NextDecode]_vars

\* The last time of the clock.
MaxClock == 5

\* Time passes by one unit; Redis deletes the keys whose time has come.
Tick ==
    /\ now < MaxClock
    /\ now' = now + 1
    /\ LET gone == {u \in Users : expireAt[u] >= 0 /\ expireAt[u] <= now + 1}
       IN  /\ timelines' = [u \in Users |-> IF u \in gone THEN {} ELSE timelines[u]]
           /\ lastApplied' = [u \in Users |-> IF u \in gone THEN {} ELSE lastApplied[u]]
           /\ expireAt' = [u \in Users |-> IF u \in gone THEN -1 ELSE expireAt[u]]
           /\ wroteAt' = [u \in Users |-> IF u \in gone THEN -1 ELSE wroteAt[u]]
           /\ pager' = IF pager.state # "idle" /\ pager.user \in gone
                       THEN [pager EXCEPT !.dirty = TRUE] ELSE pager
    /\ UNCHANGED <<extVars, followers, deleted, runVars, dropped, writes, rd, lp>>

\* post-service DeletePost: the post is deleted from the repository and its
\* id published on post.deleted, a subject the feed service does not
\* subscribe to (main.go:89 subscribes to post.created alone).
DeletePost(p) ==
    /\ p \notin deleted
    /\ deleted' = deleted \cup {p}
    /\ UNCHANGED <<extVars, followers, now, storeVars, runVars, dropped, readVars>>

\* graph-service UnfollowUser: the FOLLOWS relation from u to the author is
\* deleted; nothing is sent to the feed service.
UnfollowUser(u) ==
    /\ u \in Range(followers)
    /\ followers' = SelectSeq(followers, LAMBDA x : x # u)
    /\ UNCHANGED <<extVars, now, deleted, storeVars, runVars, dropped, readVars>>

\* The store over months: whole AddToTimelines calls, reads, deleted posts,
\* lost followers, and time.
NextTTL ==
    \/ \E it \in ItemPool : StoreAdd({Reader}, it)
    \/ GetTimeline(FirstPage(Reader))
    \/ DeletePost(PostP1)
    \/ UnfollowUser(Reader)
    \/ Tick

SpecTTL == InitStore /\ [][NextTTL]_vars

\* ------------------------------------------------------------------------
\* The follow graph (graph-service) under distributions
\* ------------------------------------------------------------------------

\* The user whose followers the variable followers holds when users follow
\* and unfollow: an author who has a timeline of their own.
Followee == UserId(1)

\* A service that creates whatever relation it is asked for.
MutFollowCheckNoSelf(actorID, targetID) ==
    IF actorID = <<>> \/ targetID = <<>> THEN "empty" ELSE "ok"

\* graphService.FollowUser before the repository: empty ids and
\* actorID == targetID are refused with an error.
FollowCheck(actorID, targetID) ==
    IF actorID = <<>> \/ targetID = <<>> THEN "empty"
    ELSE IF actorID = targetID THEN "self"
    ELSE "ok"

\* graphService.FollowUser -> Neo4jRepo.CreateRelation: MERGE creates the
\* FOLLOWS relation if it is not there.  Of the relations, those towards
\* Followee are kept (in followers).
FollowUser(actorID, targetID) ==
    /\ fw' = [actor |-> actorID, target |-> targetID,
              err |-> FollowCheck(actorID, targetID) # "ok"]
    /\ followers' = IF /\ FollowCheck(actorID, targetID) = "ok"
                       /\ targetID = Followee
                       /\ actorID \notin Range(followers)
                    THEN Append(followers, actorID)
                    ELSE followers
    /\ UNCHANGED <<posts, published, created, pl, now, deleted, storeVars, runVars,
                   dropped, readVars>>

\* The posts of Followee that are notified, and who follows whom.
FollowPool ==
    { FeedItem(TypePost, Followee, PostP1, 2 * TicksPerSecond),
      FeedItem(TypeVideo, Followee, PostP2, 3 * TicksPerSecond + 1) }

FollowMessages == {[ok |-> TRUE, item |-> it] : it \in FollowPool}

FollowActors == {UserId(1), UserId(2), UserId(3)}
FollowTargets == {UserId(1), UserId(2)}

InitFollow ==
    /\ Init
    /\ followers = <<>>

NextFollow ==
    \/ \E a \in FollowActors, t \in FollowTargets : FollowUser(a, t)
    \/ \E u \in FollowActors : UnfollowUser(u)
    \/ \E d \in Dists, msg \in FollowMessages : HandlePostCreated(d, msg)
    \/ \E d \in Dists : OpenStream(d, TRUE)
    \/ \E d \in Dists : Recv(d, FALSE)
    \/ \E d \in Dists : CallAddToTimelines(d)
    \/ \E d \in Dists : Apply(d)
    \/ \E d \in Dists : Return(d)

SpecFollow == InitFollow /\ [][NextFollow]_vars

\* ------------------------------------------------------------------------
\* The gRPC servers: feed-service GetTimeline, post-service ListPostsByAuthor
\* ------------------------------------------------------------------------

\* A read that answers a failed range with the head of the timeline and no
\* error.
MutRepoReadPartial(store, req, storeErr) ==
    IF storeErr
    THEN [items |-> RepoGetTimeline(store, [req EXCEPT !.Limit = 1]), err |-> FALSE]
    ELSE [items |-> RepoGetTimeline(store, req), err |-> FALSE]

\* RedisFeedRepo.GetTimeline: results, err := ZRevRangeWithScores(...);
\* if err != nil { return nil, err }.
RepoRead(store, req, storeErr) ==
    IF storeErr THEN [items |-> <<>>, err |-> TRUE]
    ELSE [items |-> RepoGetTimeline(store, req), err |-> FALSE]

\* A server that takes a limit of 0 as given.
MutDomainReqAsGiven(preq) ==
    FeedRequest(preq.UserID,
                IF preq.Limit < 0 THEN DefaultLimit ELSE preq.Limit,
                IF preq.Offset < 0 THEN 0 ELSE preq.Offset,
                {})

\* Server.GetTimeline's domainReq: a limit <= 0 becomes 20, an offset < 0
\* becomes 0; UserID, Limit and Offset are set, Types is left nil.
DomainReq(preq) ==
    FeedRequest(preq.UserID,
                IF preq.Limit <= 0 THEN DefaultLimit ELSE preq.Limit,
                IF preq.Offset < 0 THEN 0 ELSE preq.Offset,
                {})

\* Server.GetTimeline's mapping of the domain items to the response: one
\* proto item per item, in order, with its four fields.
ProtoItems(items) ==
    [k \in 1..Len(items) |->
        FeedItem(items[k].Type, items[k].AuthorID, items[k].PostID, items[k].CreatedAt)]

\* Server.GetTimeline: an empty user_id is answered InvalidArgument; an
\* error of the service is answered Internal, without items; otherwise the
\* items FeedService.GetTimeline returned (the repository's) are mapped to
\* the response.
ServerGetTimeline(preq, storeErr) ==
    /\ pager.state = "idle"
    /\ IF preq.UserID = <<>>
       THEN rd' = [req |-> FeedRequest(preq.UserID, preq.Limit, preq.Offset, {}),
                   items |-> <<>>, expect |-> <<>>, follows |-> FALSE,
                   storeErr |-> FALSE, code |-> "InvalidArgument", reached |-> FALSE,
                   asked |-> preq, got |-> <<>>]
       ELSE LET req == DomainReq(preq)
                r == RepoRead(timelines, req, storeErr)
            IN  rd' = [req |-> req,
                       items |-> IF r.err THEN <<>> ELSE ProtoItems(r.items),
                       expect |-> Page(timelines, lastApplied, req),
                       follows |-> req.UserID \in Range(followers),
                       storeErr |-> storeErr,
                       code |-> IF r.err THEN "Internal" ELSE "OK",
                       reached |-> TRUE,
                       asked |-> preq, got |-> r.items]
    /\ UNCHANGED <<extVars, followers, now, deleted, storeVars, runVars, dropped, writes, lp, pager>>

\* The page tokens of the model: none, the creation time of a post as
\* ListPostsByAuthor formats it ("t" and a digit stand for an RFC 3339
\* time), and strings that are no time.
FormatTime(t) == <<"t", Alphabet[t]>>
PageTokens == {<<>>, FormatTime(1), FormatTime(2), <<"t">>, <<"p", "1">>, <<"t", ":">>}

\* time.Parse(time.RFC3339Nano, cursor)
ParseTime(tok) ==
    IF Len(tok) = 2 /\ tok[1] = "t" /\ tok[2] \in {"1", "2", "3", "4", "5", "6", "7"}
    THEN [ok |-> TRUE, t |-> Rank(tok[2])]
    ELSE [ok |-> FALSE, t |-> 0]

\* service.ListPostsByAuthor up to the repository: a cursor that is not
\* empty and does not parse ends the call with errors.New("invalid page
\* token"), a plain error.
CursorCheck(tok) ==
    IF tok # <<>> /\ ~ParseTime(tok).ok
    THEN [ok |-> FALSE, err |-> [status |-> FALSE, code |-> "none"]]
    ELSE [ok |-> TRUE, err |-> [status |-> FALSE, code |-> "none"]]

\* The code a gRPC client sees for the error a handler returned: the code
\* of a status error, Unknown for any other error.
GrpcCode(err) == IF err.status THEN err.code ELSE "Unknown"

\* Server.ListPostsByAuthor: the service's error is returned as it is;
\* otherwise the repository is queried (and may fail) and the page returned.
ListPostsByAuthor(tok, repoErr) ==
    /\ LET c == CursorCheck(tok)
       IN  lp' = IF ~c.ok
                 THEN [token |-> tok, parsed |-> FALSE, code |-> GrpcCode(c.err),
                       reached |-> FALSE]
                 ELSE [token |-> tok, parsed |-> TRUE,
                       code |-> IF repoErr
                                THEN GrpcCode([status |-> FALSE, code |-> "none"])
                                ELSE "OK",
                       reached |-> TRUE]
    /\ UNCHANGED <<extVars, followers, now, deleted, storeVars, runVars, dropped, writes, rd, pager>>

\* The requests a client may send.
ServerRequests ==
    {GetTimelineRequest(Reader, l, o, ts) :
        l \in {-1, 0, 1, 2}, o \in {-1, 0, 1}, ts \in TypeSets}
    \cup {GetTimelineRequest(<<>>, l, 0, {}) : l \in {0, 2}}

NextServer ==
    \/ \E preq \in ServerRequests, storeErr \in BOOLEAN : ServerGetTimeline(preq, storeErr)
    \/ \E tok \in PageTokens, repoErr \in BOOLEAN : ListPostsByAuthor(tok, repoErr)

SpecServer == InitDecode /\ [][NextServer]_vars

\* ------------------------------------------------------------------------
\* post-service: CreatePost and the pages of ListPostsByAuthor
\* ------------------------------------------------------------------------

\* The posts users create: a row of the posts table with its id, its
\* user_id, its created_at (time.Now() of the call: two calls may read the
\* same instant) and the type PublishPostCreated derives from its media
\* ("post" without media, else the type of the first).
PostPool ==
    { FeedItem(TypePost, Author, PostP1, 4),
      FeedItem(TypeVideo, Author, PostP2, 4),
      FeedItem(TypePost, Author, PostP3, 7),
      FeedItem(TypePost, OtherAuthor, PostP4, 6) }

\* A service that publishes whatever Save returned.
MutAfterSavePublishes(ok) == "publish"

\* if err := s.repo.Save(ctx, post); err != nil { return nil, err }
AfterSave(ok) == IF ok THEN "publish" ELSE "return"

\* service.CreatePost up to the return of repo.Save: the INSERT is done or
\* fails; on a failure CreatePost returns the error.
CreateSave(post, ok) ==
    /\ created[post.PostID] = NotCreated
    /\ posts' = IF ok THEN posts \cup {post} ELSE posts
    /\ created' = [created EXCEPT ![post.PostID] =
                       [saved |-> IF ok THEN "ok" ELSE "failed",
                        pub |-> "none",
                        ret |-> IF AfterSave(ok) = "return" THEN "error" ELSE "none"]]
    /\ pl' = IF pl.state # "idle" /\ ok THEN [pl EXCEPT !.dirty = TRUE] ELSE pl
    /\ UNCHANGED <<fw, published, followers, now, deleted, storeVars, runVars, dropped,
                   readVars>>

\* NatsPublisher.PublishPostCreated: the event of the post, as the feed
\* service decodes it.
PostCreatedEvent(post) ==
    [ok |-> TRUE, item |-> FeedItem(post.Type, post.AuthorID, post.PostID, post.CreatedAt)]

\* service.CreatePost after repo.Save: PublishPostCreated is called once,
\* its error is dropped, and the post is returned.
CreatePublish(post, ok) ==
    /\ created[post.PostID].saved # "none"
    /\ created[post.PostID].ret = "none"
    /\ published' = IF ok THEN published \cup {PostCreatedEvent(post)} ELSE published
    /\ created' = [created EXCEPT ![post.PostID].pub = IF ok THEN "ok" ELSE "failed",
                                  ![post.PostID].ret = "post"]
    /\ UNCHANGED <<fw, posts, pl, followers, now, deleted, storeVars, runVars, dropped,
                   readVars>>

\* NATS delivers an event published on post.created to the subscription of
\* the feed service, once.
Deliver(d, msg) ==
    /\ msg \in published
    /\ \A o \in Dists : item[o] # msg.item
    /\ HandlePostCreated(d, msg)

\* Posts created, published and distributed to the author's two followers.
PublishPool == {post \in PostPool : post.AuthorID = Author}

NextPublish ==
    \/ \E post \in PublishPool, ok \in BOOLEAN : CreateSave(post, ok)
    \/ \E post \in PublishPool, ok \in BOOLEAN : CreatePublish(post, ok)
    \/ \E d \in Dists : \E msg \in published : Deliver(d, msg)
    \/ \E d \in Dists : OpenStream(d, TRUE)
    \/ \E d \in Dists : Recv(d, FALSE)
    \/ \E d \in Dists : CallAddToTimelines(d)
    \/ \E d \in Dists : Apply(d)
    \/ \E d \in Dists : Return(d)

SpecPublish == InitStore /\ [][NextPublish]_vars

\* The orders ORDER BY created_at DESC may give the rows of S: rows of equal
\* created_at in any order.
RECURSIVE DescOrders(_)
DescOrders(S) ==
    IF S = {} THEN {<<>>}
    ELSE LET top == {r \in S : \A o \in S : r.CreatedAt >= o.CreatedAt}
         IN  UNION {{<<r>> \o rest : rest \in DescOrders(S \ {r})} : r \in top}

\* PostgresRepo.ListByAuthor: the pages the query may return.  A zero
\* cursorTime (0) selects the first page; otherwise the rows with
\* created_at < cursorTime are selected; ORDER BY created_at DESC LIMIT.
ListByAuthor(rows, authorID, limit, cursorTime) ==
    LET match == {r \in rows : r.AuthorID = authorID
                                 /\ (cursorTime = 0 \/ r.CreatedAt < cursorTime)}
    IN  {SubSeq(o, 1, IF limit < Len(o) THEN limit ELSE Len(o)) : o \in DescOrders(match)}

\* Server.ListPostsByAuthor's limit: 20 when <= 0, at most 100.
PageLimit(limit) == IF limit <= 0 THEN 20 ELSE IF limit > 100 THEN 100 ELSE limit

\* One ListPostsByAuthor call of the paging client l: the token is decoded,
\* the repository queried, and the next token is the created_at of the last
\* post of the page ("" for an empty page).  The client stops at an empty
\* page or at an error.
ListFetch(l) ==
    /\ IF ~CursorCheck(l.token).ok
       THEN pl' = [l EXCEPT !.state = "error"]
       ELSE LET cursorTime == IF l.token = <<>> THEN 0 ELSE ParseTime(l.token).t
            IN  \E page \in ListByAuthor(posts, Author, PageLimit(l.limit), cursorTime) :
                    pl' = IF page = <<>>
                          THEN [l EXCEPT !.state = "done", !.token = <<>>]
                          ELSE [l EXCEPT !.acc = @ \o page,
                                         !.token = FormatTime(page[Len(page)].CreatedAt)]
    /\ UNCHANGED <<fw, posts, published, created, followers, now, deleted, storeVars,
                   runVars, dropped, readVars>>

\* A client asks for the first page, of size L, with the empty token.
ListStart(L) ==
    /\ pl.state = "idle"
    /\ ListFetch([state |-> "paging", limit |-> L, token |-> <<>>, acc |-> <<>>,
                  dirty |-> FALSE])

\* The client asks for the page of the token it was given.
ListNext ==
    /\ pl.state = "paging"
    /\ ListFetch(pl)

\* The client is done with its pages.
ListReset ==
    /\ pl.state \in {"done", "error"}
    /\ pl' = NoLister
    /\ UNCHANGED <<fw, posts, published, created, followers, now, deleted, storeVars,
                   runVars, dropped, readVars>>

\* Posts created and listed page by page.
NextList ==
    \/ \E post \in PostPool : CreateSave(post, TRUE)
    \/ \E post \in PostPool : CreatePublish(post, TRUE)
    \/ \E L \in 1..MaxLimit : ListStart(L)
    \/ ListNext
    \/ ListReset

SpecList == InitStore /\ [][NextList]_vars

\* ------------------------------------------------------------------------
\* Properties
\* ------------------------------------------------------------------------

CeilDiv(n, c) == (n + c - 1) \div c

Terminated(d) == pc[d] \in {"done", "aborted"}

AllOk(d) == \A k \in 1..Len(calls[d]) : calls[d][k].outcome = "ok"

\* The k-th chunk of the author's followers, in follower order.
Chunk(k) ==
    SubSeq(followers, (k - 1) * BatchSize + 1,
           IF k * BatchSize > Len(followers) THEN Len(followers) ELSE k * BatchSize)

EntriesFor(u, it) == {e \in timelines[u] : e.member = Member(it)}

\* C1: when the enumeration succeeded and no store write failed, a finished
\* distribution to N >= 1 followers has issued exactly ceil(N/C) calls, whose
\* chunks are disjoint, hold at most C followers each and together hold every
\* follower, and every follower's timeline holds exactly one entry for the item.
C1_CompleteFanOut ==
    \A d \in Dists :
        (pc[d] = "done" /\ Len(followers) >= 1 /\ AllOk(d)) =>
            /\ Len(calls[d]) = CeilDiv(Len(followers), BatchSize)
            /\ \A k \in 1..Len(calls[d]) :
                   /\ Len(calls[d][k].users) <= BatchSize
                   /\ Cardinality(Range(calls[d][k].users)) = Len(calls[d][k].users)
            /\ \A j, k \in 1..Len(calls[d]) :
                   j # k => Range(calls[d][j].users) \cap Range(calls[d][k].users) = {}
            /\ UNION {Range(calls[d][k].users) : k \in 1..Len(calls[d])} = Range(followers)
            /\ \A u \in Range(followers) : Cardinality(EntriesFor(u, item[d])) = 1

\* C1 at the chunk boundary: C+1 followers, two calls, none failed.
C1_Witness ==
    \E d \in Dists :
        /\ pc[d] = "done" /\ AllOk(d)
        /\ Len(followers) = BatchSize + 1
        /\ Len(calls[d]) = 2

\* C2: the calls issued so far are the first chunks of the follower list, one
\* call per chunk and in follower order, whatever their outcomes; a finished
\* distribution has attempted all ceil(N/C) of them.
C2_EveryChunkAttemptedOnce ==
    \A d \in Dists :
        /\ Len(calls[d]) <= CeilDiv(Len(followers), BatchSize)
        /\ \A k \in 1..Len(calls[d]) : calls[d][k].users = Chunk(k)
        /\ pc[d] = "done" => Len(calls[d]) = CeilDiv(Len(followers), BatchSize)
        /\ pc[d] = "loop" => Len(calls[d]) < CeilDiv(Len(followers), BatchSize)

\* C2: a finished distribution whose first chunk failed and whose later
\* chunks were attempted all the same.
C2_Witness ==
    \E d \in Dists :
        /\ pc[d] = "done"
        /\ Len(calls[d]) >= 2
        /\ calls[d][1].outcome = "err"
        /\ calls[d][Len(calls[d])].outcome = "ok"

\* C3: a distribution whose follower stream failed (at the open or at any
\* receive) has returned an error, issued no call and written no timeline;
\* one whose stream did not fail never returns an error.
C3_StreamFailureAborts ==
    \A d \in Dists :
        /\ streamErr[d] =>
               /\ pc[d] = "aborted" /\ result[d] = "error"
               /\ calls[d] = <<>>
               /\ \A u \in Users : EntriesFor(u, item[d]) = {}
        /\ ~streamErr[d] => result[d] # "error" /\ pc[d] # "aborted"

\* C3: the stream failed after batches had been received.
C3_Witness ==
    \E d \in Dists : streamErr[d] /\ cursor[d] >= StreamBatchSize /\ result[d] = "error"

\* C4: a distribution for an author without followers whose enumeration did
\* not fail ends with success and without a single AddToTimelines call.
C4_NoFollowersNoWrites ==
    \A d \in Dists :
        (Terminated(d) /\ Len(followers) = 0 /\ ~streamErr[d]) =>
            pc[d] = "done" /\ result[d] = "ok" /\ calls[d] = <<>>

\* C4: such a distribution has ended.
C4_Witness ==
    \E d \in Dists : pc[d] = "done" /\ Len(followers) = 0 /\ result[d] = "ok"

\* C5: however often and with whatever CreatedAt a reference was upserted
\* into a timeline, the timeline holds exactly one entry for its member, and
\* the entry's score is the CreatedAt (in seconds) of the upsert applied last.
C5_IdempotentMembership ==
    \A u \in Users : \A w \in lastApplied[u] :
        {e \in timelines[u] : e.member = w.member}
            = {[member |-> w.member, score |-> Unix(w.item.CreatedAt)]}

\* C5: a reference upserted again with an earlier CreatedAt than before.
C5_Witness ==
    \E w \in lastApplied[Reader] :
        /\ w.n = 2
        /\ w.prev > w.item.CreatedAt
        /\ Unix(w.prev) # Unix(w.item.CreatedAt)

\* C6 (as claimed): with no write since the paging started, the pages
\* fetched up to the first empty one, concatenated, are the whole timeline in
\* descending order, every item once.
C6_PaginationReproducesOrdering ==
    (pager.state = "done" /\ ~pager.dirty) =>
        pager.acc = Ordering(timelines, lastApplied, pager.user)

\* C7 (as claimed): a read returns the entries at positions Offset ..
\* Offset+Limit-1 of the descending order, less those whose type a non-empty
\* Types excludes: at most Limit items, each of a type in Types.
C7_RangeThenFilter ==
    rd # NoRead =>
        /\ rd.items = rd.expect
        /\ Len(rd.items) <= rd.req.Limit
        /\ rd.req.Types # {} => \A k \in 1..Len(rd.items) : rd.items[k].Type \in rd.req.Types

\* C8 (as claimed): a read whose range covers the entries of a timeline
\* returns, for every reference distributed to the user, an item with its
\* ContentID, AuthorID, ContentType and CreatedAt in whole seconds; a user
\* who does not follow the author is returned nothing.
C8_DistributedIsReadable ==
    rd # NoRead =>
        /\ \A k \in 1..Len(rd.expect) : rd.expect[k] \in Range(rd.items)
        /\ ~rd.follows => rd.items = <<>>

\* C9 (as claimed): the ids a distribution holds and has not dispatched
\* never exceed one stream batch plus one dispatch chunk.
C9_BoundedHolding == \A d \in Dists : peak[d] <= StreamBatchSize + BatchSize

\* C10 (as claimed): no AddToTimelines call is issued once the deadline of
\* the distribution has passed.
C10_NoDispatchAfterDeadline ==
    \A d \in Dists : \A k \in 1..Len(calls[d]) : ~calls[d][k].afterDeadline

\* C11: a distribution that has ended returned an error exactly when its
\* follower enumeration failed; one whose enumeration succeeded returned
\* success, whatever the outcomes of its AddToTimelines calls.
C11_OnlyEnumerationFails ==
    \A d \in Dists :
        Terminated(d) =>
            /\ result[d] = "error" <=> streamErr[d]
            /\ ~streamErr[d] => result[d] = "ok"

\* C11: a distribution of two chunks or more whose every call failed and
\* which returned success.
C11_Witness ==
    \E d \in Dists :
        /\ pc[d] = "done" /\ result[d] = "ok"
        /\ Len(calls[d]) >= 2
        /\ \A k \in 1..Len(calls[d]) : calls[d][k].outcome = "err"

\* C12: a handler that has started a distribution can return at once,
\* wherever the distribution is (not started, running, ended with success or
\* with an error): its return waits for nothing of the distribution.
C12_HandlerNeverWaits ==
    \A d \in Dists : handler[d] = "running" => ENABLED HandlerReturn(d)

\* C12: the handler has returned and the goroutine has not yet started.
C12_Witness ==
    \E d \in Dists : handler[d] = "returned" /\ pc[d] = "spawned"

\* C13: the step that drops an undecodable notification changes nothing
\* but the count of dropped notifications (no distribution is started, no
\* follower is enumerated, no timeline written, nothing is queued again), and
\* after a drop a free handler still takes every decodable notification.
C13_UndecodableIsDropped ==
    /\ [](\A d \in Dists : \A it \in ItemPool :
             (dropped > 0 /\ pc[d] = "free") =>
                 ENABLED HandlePostCreated(d, [ok |-> TRUE, item |-> it]))
    /\ [][dropped' # dropped =>
             UNCHANGED <<extVars, followers, now, deleted, storeVars, runVars, readVars>>]_vars

\* C13: a notification was dropped and a distribution has run to its end
\* and written a timeline.
C13_Witness ==
    \E d \in Dists :
        /\ dropped >= 1
        /\ pc[d] = "done" /\ result[d] = "ok"
        /\ \E u \in Users : EntriesFor(u, item[d]) # {}

\* u's commands were executed in a call of d that returned without error.
Received(d, u) ==
    \E k \in 1..Len(calls[d]) :
        calls[d][k].outcome = "ok" /\ u \in Range(calls[d][k].users)

\* The timeline left by the upsert of a and then the upsert of b.
Serial(a, b) == ZAdd(ZAdd({}, Member(a), Score(a)), Member(b), Score(b))

\* C14 (as claimed): once two concurrent distributions have ended, a
\* timeline that received both holds what either serial order of the two
\* upserts leaves: its final members and scores do not depend on the
\* interleaving, also when both upsert the same member.
C14_InterleavingIndependent ==
    (pc["d1"] = "done" /\ pc["d2"] = "done") =>
        \A u \in Users :
            (Received("d1", u) /\ Received("d2", u)) =>
                /\ timelines[u] = Serial(item["d1"], item["d2"])
                /\ timelines[u] = Serial(item["d2"], item["d1"])

\* The position in a read result of the item of reference it (0 if absent).
PositionOf(items, it) ==
    IF \E k \in 1..Len(items) :
           items[k].Type = it.Type /\ items[k].AuthorID = it.AuthorID
               /\ items[k].PostID = it.PostID
    THEN CHOOSE k \in 1..Len(items) :
             items[k].Type = it.Type /\ items[k].AuthorID = it.AuthorID
                 /\ items[k].PostID = it.PostID
    ELSE 0

\* C15 (as claimed): once two concurrent distributions of distinct items of
\* one author have ended, a read of a timeline that received both returns
\* both, the item with the greater CreatedAt before the other.
C15_NewerFirstAfterRace ==
    \A d, o \in Dists :
        ( /\ pc[d] = "done" /\ pc[o] = "done"
          /\ item[d].PostID # item[o].PostID
          /\ item[d].CreatedAt > item[o].CreatedAt ) =>
            \A u \in Users :
                (Received(d, u) /\ Received(o, u)) =>
                    LET items == RepoGetTimeline(timelines, FirstPage(u))
                    IN  /\ PositionOf(items, item[d]) > 0
                        /\ PositionOf(items, item[o]) > 0
                        /\ PositionOf(items, item[d]) < PositionOf(items, item[o])

\* The parts an entry of the timeline was joined from.
PartsOf(member) == (CHOOSE e \in StoredPool : Join(e.parts) = member).parts

\* What the claim owes for a range of entries: an item with all three fields
\* for three parts, one with an empty AuthorID for two, nothing otherwise.
RECURSIVE Owed(_)
Owed(results) ==
    IF results = <<>> THEN <<>>
    ELSE LET ps == PartsOf(Head(results).member)
             at == TimeUnix(Head(results).score)
         IN  (IF Len(ps) = 3 THEN <<FeedItem(ps[1], ps[2], ps[3], at)>>
              ELSE IF Len(ps) = 2 THEN <<FeedItem(ps[1], <<>>, ps[2], at)>>
              ELSE <<>>)
             \o Owed(Tail(results))

\* C16: a read returns, for the entries of its range in order, the type,
\* author and content id of a three-part member, the type and content id
\* with an empty author of a two-part member, and nothing for a member of
\* another number of parts (less the types a filter excludes).
C16_BothEncodingsDecode ==
    rd # NoRead =>
        rd.code = "OK" /\ rd.items =
            Keep(Owed(ZRevRangeWithScores(timelines[rd.req.UserID], rd.req.Offset,
                                          rd.req.Offset + rd.req.Limit - 1)),
                 rd.req.Types)

\* C16: one read returned an item of each encoding and left out a member of
\* four parts that lay in its range.
C16_Witness ==
    /\ \E k \in 1..Len(rd.items) : rd.items[k].AuthorID = <<>>
    /\ \E k \in 1..Len(rd.items) : rd.items[k].AuthorID = Author
    /\ Len(rd.items) = 2
    /\ rd.req.Limit = 3 /\ rd.req.Offset = 0
    /\ Cardinality(timelines[Reader]) = 3

\* C17: a timeline that exists expires TimelineTTL (30 days) after the
\* last upsert executed on it, whatever was written or read before, and it
\* exists no longer than that.
C17_ExpiryFollowsLastWrite ==
    \A u \in Users :
        /\ timelines[u] # {} =>
               /\ wroteAt[u] >= 0
               /\ expireAt[u] = wroteAt[u] + TimelineTTL
               /\ now < expireAt[u]
        /\ timelines[u] = {} => expireAt[u] = -1

\* C17: a timeline written twice, the second time after a while, has
\* outlived its first window and was read since its last write.
C17_Witness ==
    /\ timelines[Reader] # {}
    /\ wroteAt[Reader] > 0
    /\ now > TimelineTTL
    /\ now > wroteAt[Reader]
    /\ rd.req.UserID = Reader /\ rd.items # <<>>

\* The references a read of the whole timeline of u returns.
Readable(store, u) ==
    LET items == RepoGetTimeline(store, FeedRequest(u, Cardinality(store[u]), 0, {}))
    IN  {[Type |-> items[k].Type, AuthorID |-> items[k].AuthorID,
          PostID |-> items[k].PostID] : k \in 1..Len(items)}

MembersOf(tl) == {e.member : e \in tl}

\* C18: in every step that does not expire the key of a timeline (a
\* distribution's upsert, a read, a deleted post, an unfollow, time passing
\* short of the expiry), the timeline keeps every member it has, and every
\* reference a read returned before is returned after.
C18_EntriesStayUntilExpiry ==
    [][\A u \in Users :
           ~(expireAt[u] >= 0 /\ expireAt[u] <= now') =>
               /\ MembersOf(timelines[u]) \subseteq MembersOf(timelines'[u])
               /\ Readable(timelines, u) \subseteq Readable(timelines', u)]_vars

\* C18: the post of an entry was deleted, its reader has unfollowed the
\* author, time has passed, and the entry is read all the same.
C18_Witness ==
    /\ PostP1 \in deleted
    /\ Reader \notin Range(followers)
    /\ now > wroteAt[Reader]
    /\ \E e \in timelines[Reader] : Decode(e.member).PostID = PostP1
    /\ \E r \in Readable(timelines, Reader) : r.PostID = PostP1

\* C19: a timeline read during which the store failed is answered with an
\* error and without a single item, whatever the timeline holds.
C19_StoreFailureNoItems ==
    rd.storeErr => rd.code = "Internal" /\ rd.items = <<>>

\* C19: the store failed on the read of a timeline that holds entries.
C19_Witness ==
    /\ rd.storeErr /\ rd.reached
    /\ rd.code = "Internal"
    /\ Readable(timelines, rd.req.UserID) # {}

\* C20 (as claimed): a timeline read without user id and a
\* ListPostsByAuthor call whose page token does not parse are answered
\* InvalidArgument without the store or the repository being reached.
C20_InvalidShapeRejected ==
    /\ (rd # NoRead /\ rd.req.UserID = <<>>) =>
           ~rd.reached /\ rd.code = "InvalidArgument"
    /\ (lp # NoList /\ lp.token # <<>> /\ ~ParseTime(lp.token).ok) =>
           ~lp.reached /\ lp.code = "InvalidArgument"

\* C21: a served read forwards to the store the user id, a Limit of 20 when
\* the requested limit is <= 0 and the requested limit otherwise, an Offset
\* of 0 when the requested offset is negative and the requested offset
\* otherwise, and answers with the store's list, in its order and content.
C21_ReaderForwardsAndReturns ==
    (rd.reached /\ rd.code = "OK") =>
        /\ rd.req.UserID = rd.asked.UserID
        /\ rd.req.Limit = (IF rd.asked.Limit <= 0 THEN 20 ELSE rd.asked.Limit)
        /\ rd.req.Offset = (IF rd.asked.Offset < 0 THEN 0 ELSE rd.asked.Offset)
        /\ rd.got = RepoGetTimeline(timelines, rd.req)
        /\ rd.items = rd.got

\* C21: a read with limit 0 and a negative offset was served the whole
\* timeline of three readable entries.
C21_Witness ==
    /\ rd.reached /\ rd.code = "OK"
    /\ rd.asked.Limit = 0 /\ rd.asked.Offset < 0
    /\ rd.req.Limit = DefaultLimit /\ rd.req.Offset = 0
    /\ Len(rd.items) = 3

\* C23 (as claimed): a served read that carries a non-empty types list
\* returns only items whose type is in the list.
C23_ServedTypesFilter ==
    (rd.reached /\ rd.code = "OK" /\ rd.asked.Types # {}) =>
        \A k \in 1..Len(rd.items) : rd.items[k].Type \in rd.asked.Types

\* C22 (as claimed): a distribution that ran its loop to the end exposes
\* two counts of followers, succeeded and failed, which sum to the number of
\* followers enumerated, the failed one above zero when a call failed.
C22_CountsExposed ==
    \A d \in Dists :
        (pc[d] = "done" /\ calls[d] # <<>>) =>
            LET rec == FanOutComplete(allFollowers[d])
                anyFailed == \E k \in 1..Len(calls[d]) : calls[d][k].outcome = "err"
            IN  \E ks, kf \in (DOMAIN rec) \ {"msg"} :
                    /\ ks # kf
                    /\ rec[ks] + rec[kf] = Len(allFollowers[d])
                    /\ anyFailed => rec[kf] > 0

\* C24: the calls of a distribution are issued one after another: every
\* call but the last has returned, with "ok" or "err", and the last one is
\* outstanding exactly while the distribution is inside AddToTimelines,
\* when no further call can be issued.
C24_ChunksSequential ==
    \A d \in Dists :
        /\ \A k \in 1..(Len(calls[d]) - 1) : calls[d][k].outcome \in {"ok", "err"}
        /\ Cardinality({k \in 1..Len(calls[d]) : calls[d][k].outcome = "pending"}) <= 1
        /\ pc[d] = "call" <=>
               (calls[d] # <<>> /\ calls[d][Len(calls[d])].outcome = "pending")
        /\ pc[d] = "call" => ~ENABLED CallAddToTimelines(d)

\* C24: the third chunk is outstanding after the first failed and the
\* second succeeded.
C24_Witness ==
    \E d \in Dists :
        /\ pc[d] = "call" /\ Len(calls[d]) = 3
        /\ calls[d][1].outcome = "err" /\ calls[d][2].outcome = "ok"

\* The users of batch whose timeline holds the entry of it.
Holding(batch, it) ==
    {u \in Range(batch) : [member |-> Member(it), score |-> Score(it)] \in timelines[u]}

\* C25: a call that returned success left the member with the item's score
\* in the timeline of every user of its batch; while a call is outstanding
\* each user's upsert may be executed or fail on its own, whatever happened
\* to the users before; and a call returns one outcome for its batch.
C25_BatchNotTransaction ==
    \A d \in Dists :
        /\ \A k \in 1..Len(calls[d]) :
               /\ calls[d][k].outcome \in {"pending", "ok", "err"}
               /\ calls[d][k].outcome = "ok" =>
                      Holding(calls[d][k].users, item[d]) = Range(calls[d][k].users)
        /\ (pc[d] = "call" /\ pending[d] # <<>> /\ ~ctxDone[d]) =>
               ENABLED Apply(d) /\ ENABLED CmdFail(d)

\* C25: a call for two users returned an error after the first user's
\* commands failed and the second user's were executed.
C25_Witness ==
    \E d \in Dists : \E k \in 1..Len(calls[d]) :
        /\ calls[d][k].outcome = "err"
        /\ Len(calls[d][k].users) = 2
        /\ Holding(calls[d][k].users, item[d]) = {calls[d][k].users[2]}

RECURSIVE Flatten(_)
Flatten(seqs) == IF seqs = <<>> THEN <<>> ELSE Head(seqs) \o Flatten(Tail(seqs))

C27_NoOwnContent ==
    /\ (fw.actor # <<>> /\ fw.actor = fw.target) => fw.err
    /\ Followee \notin Range(followers)
    /\ \A u \in Users :
           /\ \A w \in lastApplied[u] : w.item.AuthorID # u
           /\ \A e \in timelines[u] : Decode(e.member).AuthorID # u

\* C27: the author's attempt to follow themselves was refused, a
\* distribution of their post has reached a follower, and the author's own
\* timeline is empty.
C27_Witness ==
    /\ fw.actor = Followee /\ fw.target = Followee /\ fw.err
    /\ \E d \in Dists : pc[d] = "done" /\ Len(calls[d]) >= 1
    /\ \E e \in timelines[UserId(2)] : Decode(e.member).AuthorID = Followee
    /\ timelines[Followee] = {}

\* C28 (as claimed): when the writes made while a reader fetched its pages
\* (offset 0, L, 2L, ... up to the first empty page) only added members,
\* every entry the timeline held before the first page is in a page.
C28_PagingLosesNothing ==
    (pager.state = "done" /\ ~pager.rescored) =>
        \A k \in 1..Len(pager.start) : pager.start[k] \in Range(pager.acc)

EventsOf(p) == {msg \in published : msg.item.PostID = p}

\* C29: an event is published for a post only once its row is saved and
\* never for a post whose save failed (CreatePost then returns the error);
\* a CreatePost whose save succeeded returns the post whether the
\* publication succeeded or failed; and a post whose publication failed has
\* no event, is handed to no distribution and is in no timeline.
C29_PublishAfterSave ==
    \A p \in PostIDs :
        /\ EventsOf(p) # {} =>
               created[p].saved = "ok" /\ \E r \in posts : r.PostID = p
        /\ created[p].saved = "failed" =>
               created[p].ret = "error" /\ created[p].pub = "none" /\ EventsOf(p) = {}
        /\ (created[p].saved = "ok" /\ created[p].pub # "none") => created[p].ret = "post"
        /\ created[p].pub = "failed" =>
               /\ EventsOf(p) = {}
               /\ \A d \in Dists : item[d].PostID # p
               /\ \A u \in Users : \A e \in timelines[u] : Decode(e.member).PostID # p

\* C29: a post was saved and returned although its publication failed, a
\* post whose save failed was answered with the error, and a third post
\* has been distributed to a follower.
C29_Witness ==
    /\ created[PostP1].saved = "ok" /\ created[PostP1].pub = "failed"
    /\ created[PostP1].ret = "post"
    /\ created[PostP2].saved = "failed" /\ created[PostP2].ret = "error"
    /\ \E d \in Dists : pc[d] = "done" /\ item[d].PostID = PostP3
    /\ \E e \in timelines[Reader] : Decode(e.member).PostID = PostP3

\* C30 (as claimed): with no post created meanwhile, the pages of
\* ListPostsByAuthor from the empty token to the first empty page hold
\* every post of the author once, in descending created_at order.
C30_ListPagesComplete ==
    (pl.state = "done" /\ ~pl.dirty) =>
        /\ Range(pl.acc) = {r \in posts : r.AuthorID = Author}
        /\ Len(pl.acc) = Cardinality({r \in posts : r.AuthorID = Author})
        /\ \A j, k \in 1..Len(pl.acc) :
               j < k => pl.acc[j].CreatedAt >= pl.acc[k].CreatedAt

====
